---- MODULE Spec2Model ----
(***************************************************************************)
(* A model of eljef.core: the filesystem helpers of fops.py (backup_path,  *)
(* delete, file_read, file_read_convert, file_write, file_write_convert,   *)
(* extract_file_list, mkdir, pushd), version_check of check.py, the        *)
(* recursive dictionary merge of merge.py, the key/value codec of kv.py    *)
(* and the layered Settings object of settings.py.                         *)
(***************************************************************************)
EXTENDS Integers, Sequences, FiniteSets, TLC

VARIABLES
    fs,         \* the filesystem: path -> entry
    nwrites,    \* number of write calls made so far (raw payloads are numbered)
    conv_args,  \* the module global __CONV_DATA_TO_STR_ARGS of fops.py
    ret,        \* the last library call: op, arguments, exception, value
    fsOps,      \* the os / open primitives the last library call invoked
    heap,       \* the dict objects of the merge caller: object id -> items
    dict_a,     \* merge_dictionaries' first argument (a reference)
    dict_b,     \* merge_dictionaries' second argument (a reference)
    given,      \* the values of dict_a and dict_b when the call was made
    merged,     \* the call's outcome: step, returned reference, exception
    kv,         \* a kv.dumps / kv.loads round: mapping, text, decoded mapping
    defaults,   \* Settings._defaults: the caller's own defaults dictionary
    paths,      \* Settings._paths
    loaded,     \* Settings._loaded
    settings,   \* Settings._settings: the system and the user layer
    sets,       \* Settings._sets: the attributes get() reads
    constructed, \* whether Settings.__init__ has run
    procs,      \* two processes inside file_write: position and locals
    call,       \* the last call of a function without side effects
    version_info, \* sys.version_info[0:2] of the running interpreter
    cwd,        \* os.getcwd() of the process
    pushed      \* the pushd blocks entered and not yet left: their saved cwd

fopsVars == <<fs, nwrites, conv_args, ret, fsOps>>
mergeVars == <<heap, dict_a, dict_b, given, merged>>
kvVars == <<kv>>
setVars == <<defaults, paths, loaded, settings, sets, constructed>>
utilVars == <<procs, call, version_info, cwd, pushed>>
nonFopsVars == <<mergeVars, kvVars, setVars, utilVars>>
nonMergeVars == <<fopsVars, kvVars, setVars, utilVars>>

(***************************************************************************)
(* Bounds of the model.                                                    *)
(***************************************************************************)
MaxBackups == 2      \* the backup chain is modelled up to path.bak.MaxBackups
MaxWrites == 2       \* calls of file_write and file_write_convert in a run
MaxMembers == 3      \* members of the archive handed to extract_file_list
MaxVersion == 3      \* major and minor version numbers run from 0 to this

(***************************************************************************)
(* Paths.  A path string is the sequence of its dot-separated parts, so    *)
(* that "{0!s}.bak".format(path) is Append(path, "bak").                   *)
(***************************************************************************)
Names == {"p", "t"}

MainPaths == { <<n>> : n \in Names }

ChainOf(path) ==
    {Append(path, "bak")} \cup
    { Append(Append(path, "bak"), i) : i \in 1..MaxBackups }

\* the path whose backup chain is modelled
BackedUp == <<"p">>

\* the last name of a chain of links p -> t -> u
ChainTarget == <<"u">>

Paths == MainPaths \cup ChainOf(BackedUp) \cup {ChainTarget}

\* links are only created from a name to a later one, so chains are finite
LinkTargets(path) == IF path = <<"p">> THEN {<<"t">>} ELSE {}

Absent == [kind |-> "absent", data |-> <<>>, target |-> <<>>]
File(d) == [kind |-> "file", data |-> d, target |-> <<>>]
Dir == [kind |-> "dir", data |-> <<>>, target |-> <<>>]
Link(t) == [kind |-> "link", data |-> <<>>, target |-> t]

NoError == [exc |-> "none", msg |-> ""]
OSError(errno) == [exc |-> "OSError", msg |-> errno]

(***************************************************************************)
(* The os / os.path primitives fops.py calls.                              *)
(***************************************************************************)
NoPath == <<>>

\* the one element of a singleton set: Only({e(r) : r \in {x}}) is e(x) with
\* x evaluated once
Only(S) == CHOOSE y \in S : TRUE

RECURSIVE Resolve(_, _, _)
Resolve(f, path, n) ==
    IF f[path].kind # "link" THEN path
    ELSE IF n = 0 THEN NoPath
    ELSE Resolve(f, f[path].target, n - 1)

\* os.path.realpath: the path with every symbolic link followed
os_path_realpath(f, path) == Resolve(f, path, 2 + MaxBackups)

\* os.path.exists follows symbolic links: False for a broken link
os_path_exists(f, path) ==
    \E r \in {os_path_realpath(f, path)} : r # NoPath /\ f[r].kind # "absent"

os_path_isfile(f, path) ==
    \E r \in {os_path_realpath(f, path)} : r # NoPath /\ f[r].kind = "file"

os_path_isdir(f, path) ==
    \E r \in {os_path_realpath(f, path)} : r # NoPath /\ f[r].kind = "dir"

\* os.path.islink does not follow the link
os_path_islink(f, path) == f[path].kind = "link"

\* os.rename(src, dst): moves the entry itself (a link is not followed) and
\* replaces a file or link at dst
os_rename(f, src, dst) ==
    IF f[src].kind = "absent" THEN [fs |-> f, raised |-> OSError("ENOENT")]
    ELSE IF src = dst THEN [fs |-> f, raised |-> NoError]
    ELSE IF f[src].kind = "dir" /\ f[dst].kind \in {"file", "link"}
         THEN [fs |-> f, raised |-> OSError("ENOTDIR")]
    ELSE IF f[src].kind # "dir" /\ f[dst].kind = "dir"
         THEN [fs |-> f, raised |-> OSError("EISDIR")]
    ELSE [fs |-> [f EXCEPT ![dst] = f[src], ![src] = Absent],
          raised |-> NoError]

\* os.unlink / os.remove
os_remove(f, path) ==
    IF f[path].kind = "absent" THEN [fs |-> f, raised |-> OSError("ENOENT")]
    ELSE IF f[path].kind = "dir" THEN [fs |-> f, raised |-> OSError("EISDIR")]
    ELSE [fs |-> [f EXCEPT ![path] = Absent], raised |-> NoError]

\* shutil.rmtree on a path os.path.isdir accepted
shutil_rmtree(f, path) ==
    IF f[path].kind = "link" THEN [fs |-> f, raised |-> OSError("ENOTDIR")]
    ELSE [fs |-> [f EXCEPT ![path] = Absent], raised |-> NoError]

\* open(path, mode).write(text): 'w' truncates, 'a' appends, both create
open_write(f, path, mode, text) ==
    Only({ IF r = NoPath THEN [fs |-> f, raised |-> OSError("ELOOP")]
           ELSE IF f[r].kind = "dir"
                THEN [fs |-> f, raised |-> OSError("EISDIR")]
           ELSE [fs |-> [f EXCEPT ![r] =
                           File(IF mode = "a" THEN Append(f[r].data, text)
                                ELSE <<text>>)],
                 raised |-> NoError]
           : r \in {os_path_realpath(f, path)} })

\* the result of a library call that did not touch the filesystem
Done(f, ops) == [fs |-> f, raised |-> NoError, ops |-> ops]

\* a primitive's result r as the result of the library call that made it
After(r, ops) == [fs |-> r.fs, raised |-> r.raised, ops |-> ops]

(***************************************************************************)
(* fops.backup_path                                                        *)
(***************************************************************************)
RECURSIVE backup_search(_, _, _)
\* the while loop: count up until "{base_back}.{num_backups}" does not exist
backup_search(f, base_back, num_backups) ==
    IF os_path_exists(f, Append(base_back, num_backups + 1))
    THEN backup_search(f, base_back, num_backups + 1)
    ELSE Append(base_back, num_backups + 1)

\* the name backup_path renames path to
backup_new_path(f, path) ==
    IF os_path_exists(f, Append(path, "bak"))
    THEN backup_search(f, Append(path, "bak"), 0)
    ELSE Append(path, "bak")

\* the modelled part of the chain still has a name the search stops at
BackupFits(f, path) ==
    \/ ~os_path_exists(f, path)
    \/ path = BackedUp /\ \E q \in ChainOf(path) : ~os_path_exists(f, q)

\* a backup that always renames to path.bak, without the search
backup_path_first_name(f, path) ==
    IF os_path_exists(f, path)
    THEN After(os_rename(f, path, Append(path, "bak")),
               {"os.path.exists", "os.rename"})
    ELSE Done(f, {"os.path.exists"})

backup_path(f, path) ==
    IF os_path_exists(f, path)
    THEN Only({ After(os_rename(f, path, new_path),
                      {"os.path.exists", "os.rename"})
                : new_path \in {backup_new_path(f, path)} })
    ELSE Done(f, {"os.path.exists"})

(***************************************************************************)
(* fops.delete                                                             *)
(***************************************************************************)
\* the else branch after the optional backup b: rmtree or remove
delete_remove(b, path) ==
    IF b.raised # NoError THEN b
    ELSE IF os_path_isdir(b.fs, path)
         THEN After(shutil_rmtree(b.fs, path),
                    b.ops \cup {"os.path.isdir", "shutil.rmtree"})
         ELSE After(os_remove(b.fs, path),
                    b.ops \cup {"os.path.isdir", "os.remove"})

\* the else branch: a path that is not a symbolic link
delete_plain(f, path, backup) ==
    Only({ delete_remove(b, path)
           : b \in {IF backup THEN backup_path(f, path) ELSE Done(f, {})} })

\* an except clause that swallows every error
delete_except_any(d) == Done(d.fs, d.ops)

\* except (IOError, OSError): errno.ENOENT is swallowed, the rest re-raised
delete_except(d) ==
    IF d.raised = OSError("ENOENT") THEN Done(d.fs, d.ops) ELSE d

\* the if branch that deletes the parent whether or not backup is set
delete_parent_despite_backup(u, parent, backup, uops) ==
    IF u.raised # NoError THEN After(u, uops)
    ELSE IF parent # NoPath
         THEN Only({ After(d, uops \cup {"os.path.islink"} \cup d.ops)
                     : d \in {delete_except(delete_plain(u.fs, parent, FALSE))} })
         ELSE After(u, uops)

\* the if branch after os.unlink(path) gave u: delete(parent) unless backup;
\* parent is a real path, so the nested call takes the else branch
delete_parent(u, parent, backup, uops) ==
    IF u.raised # NoError THEN After(u, uops)
    ELSE IF parent # NoPath /\ ~backup
         THEN Only({ After(d, uops \cup {"os.path.islink"} \cup d.ops)
                     : d \in {delete_except(delete_plain(u.fs, parent, FALSE))} })
         ELSE After(u, uops)

\* the try body
delete_body(f, path, follow, backup) ==
    IF os_path_islink(f, path)
    THEN Only({ delete_parent(os_remove(f, path), parent, backup,
                    {"os.path.islink", "os.unlink"} \cup
                    (IF follow THEN {"os.path.realpath"} ELSE {}))
                : parent \in {IF follow THEN os_path_realpath(f, path)
                              ELSE NoPath} })
    ELSE Only({ After(d, {"os.path.islink"} \cup d.ops)
                : d \in {delete_plain(f, path, backup)} })

delete(f, path, follow, backup) ==
    Only({ delete_except(d) : d \in {delete_body(f, path, follow, backup)} })

(***************************************************************************)
(* fops.file_read, fops.file_write                                         *)
(***************************************************************************)
\* open(path, errors='replace').read(): the whole text of the file
file_read(f, path) == f[os_path_realpath(f, path)].data

\* the write after the optional backup b
file_write_open(b, path, mode, data) ==
    IF b.raised # NoError
    THEN After(b, {"os.path.isfile"} \cup b.ops)
    ELSE After(open_write(b.fs, path, mode, data),
               {"os.path.isfile", "open"} \cup b.ops)

file_write(f, path, data, backup) ==
    Only({ file_write_open(b, path,
                           IF ~os_path_isfile(f, path) THEN "a" ELSE "w", data)
           : b \in {IF backup THEN backup_path(f, path) ELSE Done(f, {})} })

(***************************************************************************)
(* The codec registry of fops.py and the two convert functions.            *)
(***************************************************************************)
\* str.lower() on the format tags the model passes
str_lower(tag) ==
    CASE tag = "JSON" -> "json"
      [] tag = "Yaml" -> "yaml"
      [] OTHER -> tag

\* the keys of __CONV_DATA_TO_STR, __CONV_DATA_TO_STR_ARGS, __CONV_STR_TO_DATA
CONV_FORMATS == {"json", "xml", "yaml"}

\* __CONV_DATA_TO_STR_ARGS as the module is imported
CONV_DATA_TO_STR_ARGS ==
    [fmt \in CONV_FORMATS |->
        CASE fmt = "json" -> [indent |-> "4"]
          [] fmt = "xml" -> [pretty |-> "True", full_document |-> "True",
                             indent |-> "    "]
          [] fmt = "yaml" -> [default_flow_style |-> "False"]]

\* dict.update
dict_update(a, b) ==
    [k \in (DOMAIN a) \cup (DOMAIN b) |-> IF k \in DOMAIN b THEN b[k] ELSE a[k]]

EmptyDict == <<>>

\* __CONV_DATA_TO_STR[fmt](data, **kwargs): the encoded text, with the line
\* ends the encoder itself puts after the document (yaml.dump ends with one)
conv_data_to_str(fmt, data, kwargs) ==
    [fmt |-> fmt, doc |-> data, args |-> kwargs,
     eol |-> IF fmt = "yaml" THEN <<"\n">> ELSE <<>>]

\* .replace('\r\n', '\n') + '\n' on the encoded text
str_normalize(text) ==
    [text EXCEPT !.eol =
        Append([i \in 1..Len(text.eol) |->
                   IF text.eol[i] = "\r\n" THEN "\n" ELSE text.eol[i]], "\n")]

\* __CONV_STR_TO_DATA[fmt](f_data): the parser accepts one document that
\* was encoded in its own format
conv_str_to_data(fmt, f_data) ==
    IF Len(f_data) = 1 /\ f_data[1].fmt = fmt
    THEN [value |-> f_data[1].doc, raised |-> NoError]
    ELSE [value |-> EmptyDict, raised |-> [exc |-> "ParseError", msg |-> fmt]]

ValueError == [exc |-> "ValueError", msg |-> "Unsupported data_type"]
NotFoundMissing ==
    [exc |-> "FileNotFoundError", msg |-> "Provided path does not exist"]
NotFoundNotFile ==
    [exc |-> "FileNotFoundError",
     msg |-> "Provided path exists, but is not a file"]

\* a value returned, or an exception raised, after the primitives in ops
Returned(value, raised, ops) ==
    [value |-> value, raised |-> raised, ops |-> ops]

\* file_read_convert looking at the path before it looks at data_type
file_read_convert_exists_first(f, path, data_type, default) ==
    IF ~os_path_exists(f, path)
    THEN IF default
         THEN Returned(EmptyDict, NoError, {"os.path.exists"})
         ELSE Returned(EmptyDict, NotFoundMissing, {"os.path.exists"})
    ELSE IF str_lower(data_type) \notin CONV_FORMATS
    THEN Returned(EmptyDict, ValueError, {"os.path.exists"})
    ELSE IF ~os_path_isfile(f, path)
    THEN Returned(EmptyDict, NotFoundNotFile,
                  {"os.path.exists", "os.path.isfile"})
    ELSE Only({ Returned(c.value, c.raised,
                         {"os.path.exists", "os.path.isfile", "open"})
                : c \in {conv_str_to_data(str_lower(data_type),
                                          file_read(f, path))} })

\* file_read_convert with the test of default inverted
file_read_convert_default_inverted(f, path, data_type, default) ==
    IF str_lower(data_type) \notin CONV_FORMATS
    THEN Returned(EmptyDict, ValueError, {})
    ELSE IF ~os_path_exists(f, path)
    THEN IF ~default
         THEN Returned(EmptyDict, NoError, {"os.path.exists"})
         ELSE Returned(EmptyDict, NotFoundMissing, {"os.path.exists"})
    ELSE IF ~os_path_isfile(f, path)
    THEN Returned(EmptyDict, NotFoundNotFile,
                  {"os.path.exists", "os.path.isfile"})
    ELSE Only({ Returned(c.value, c.raised,
                         {"os.path.exists", "os.path.isfile", "open"})
                : c \in {conv_str_to_data(str_lower(data_type),
                                          file_read(f, path))} })

\* file_read_convert without the os.path.isfile test: it opens what it finds
file_read_convert_no_isfile(f, path, data_type, default) ==
    IF str_lower(data_type) \notin CONV_FORMATS
    THEN Returned(EmptyDict, ValueError, {})
    ELSE IF ~os_path_exists(f, path)
    THEN IF default
         THEN Returned(EmptyDict, NoError, {"os.path.exists"})
         ELSE Returned(EmptyDict, NotFoundMissing, {"os.path.exists"})
    ELSE IF ~os_path_isfile(f, path)
    THEN Returned(EmptyDict, [exc |-> "IsADirectoryError", msg |-> "EISDIR"],
                  {"os.path.exists", "open"})
    ELSE Only({ Returned(c.value, c.raised,
                         {"os.path.exists", "os.path.isfile", "open"})
                : c \in {conv_str_to_data(str_lower(data_type),
                                          file_read(f, path))} })

file_read_convert(f, path, data_type, default) ==
    IF str_lower(data_type) \notin CONV_FORMATS
    THEN Returned(EmptyDict, ValueError, {})
    ELSE IF ~os_path_exists(f, path)
    THEN IF default
         THEN Returned(EmptyDict, NoError, {"os.path.exists"})
         ELSE Returned(EmptyDict, NotFoundMissing, {"os.path.exists"})
    ELSE IF ~os_path_isfile(f, path)
    THEN Returned(EmptyDict, NotFoundNotFile,
                  {"os.path.exists", "os.path.isfile"})
    ELSE Only({ Returned(c.value, c.raised,
                         {"os.path.exists", "os.path.isfile", "open"})
                : c \in {conv_str_to_data(str_lower(data_type),
                                          file_read(f, path))} })

\* returns the registry's own dictionary, not a copy of it
file_write_convert_defaults(args, data_type) ==
    IF str_lower(data_type) \notin CONV_FORMATS
    THEN Returned(EmptyDict, ValueError, {})
    ELSE Returned(args[str_lower(data_type)], NoError, {})

\* file_write_convert once the defaults are fetched: dumper_kwargs is the
\* registry's dictionary, so update() writes into the registry
file_write_convert_dump(f, args, path, fmt, data, backup, dumper_kwargs) ==
    Only({ [fs |-> w.fs, args |-> [args EXCEPT ![fmt] = dumper_kwargs],
            raised |-> w.raised, ops |-> w.ops]
           : w \in {file_write(f, path,
                       str_normalize(conv_data_to_str(fmt, data, dumper_kwargs)),
                       backup)} })

file_write_convert(f, args, path, data_type, data, backup, dumper_args) ==
    IF file_write_convert_defaults(args, data_type).raised # NoError
    THEN [fs |-> f, args |-> args,
          raised |-> file_write_convert_defaults(args, data_type).raised,
          ops |-> {}]
    ELSE Only({ file_write_convert_dump(f, args, path, str_lower(data_type),
                                        data, backup, dumper_kwargs)
                : dumper_kwargs \in
                    {IF dumper_args # EmptyDict
                     THEN dict_update(
                            file_write_convert_defaults(args, data_type).value,
                            dumper_args)
                     ELSE file_write_convert_defaults(args, data_type).value} })

(***************************************************************************)
(* fops.mkdir                                                              *)
(***************************************************************************)
\* os.makedirs(path)
os_makedirs(f, path) ==
    IF f[path].kind # "absent"
    THEN [fs |-> f, raised |-> [exc |-> "FileExistsError", msg |-> "EEXIST"]]
    ELSE [fs |-> [f EXCEPT ![path] = Dir], raised |-> NoError]

\* the creation after delete(path, backup=backup) gave d
mkdir_create(d, path) ==
    IF d.raised # NoError THEN d
    ELSE After(os_makedirs(d.fs, path),
               d.ops \cup {"os.path.exists", "os.makedirs"})

mkdir(f, path, del_exist, backup) ==
    IF os_path_exists(f, path)
    THEN IF del_exist
         THEN Only({ mkdir_create(d, path)
                     : d \in {delete(f, path, FALSE, backup)} })
         ELSE IF ~os_path_isdir(f, path)
              THEN [fs |-> f,
                    raised |-> [exc |-> "FileExistsError",
                                msg |-> "Path exists, but is not a directory"],
                    ops |-> {"os.path.exists", "os.path.isdir"}]
              ELSE Done(f, {"os.path.exists", "os.path.isdir"})
    ELSE After(os_makedirs(f, path), {"os.path.exists", "os.makedirs"})

(***************************************************************************)
(* The filesystem operations as steps of one caller.                       *)
(***************************************************************************)
\* format tags callers pass: three registered ones and two that are not
DataTypes == {"JSON", "yaml", "xml", "kv", "unknown_type"}

\* mappings handed to file_write_convert
Docs == {EmptyDict, [test |-> "test"]}

\* dumper_args handed to file_write_convert (EmptyDict stands for None)
DumperArgs == {EmptyDict, [indent |-> "2"]}

\* the text file_write is handed by a caller: a numbered payload
RawText(n) == [fmt |-> "raw", raw |-> n]

NoCall ==
    [op |-> "none", path |-> NoPath, data_type |-> "", flag |-> FALSE,
     backup |-> FALSE, raised |-> NoError, value |-> EmptyDict]

Call(op, path, data_type, flag, backup, raised, value) ==
    [op |-> op, path |-> path, data_type |-> data_type, flag |-> flag,
     backup |-> backup, raised |-> raised, value |-> value]

\* the filesystem part of the state as the module is imported
FopsStart ==
    /\ fs = [q \in Paths |-> Absent]
    /\ nwrites = 0
    /\ conv_args = CONV_DATA_TO_STR_ARGS
    /\ ret = NoCall
    /\ fsOps = {}

\* the merge part of the state while no merge is being looked at
MergeIdle ==
    /\ heap = <<>>
    /\ dict_a = NoPath
    /\ dict_b = NoPath
    /\ given = <<>>
    /\ merged = [step |-> "idle"]

\* the codec part of the state while kv.py is not being looked at
KvIdle == kv = [step |-> "idle"]

\* the Settings part of the state while no Settings object exists
SettingsIdle ==
    /\ defaults = EmptyDict
    /\ paths = [system |-> NoPath, user |-> NoPath]
    /\ loaded = [system |-> FALSE, user |-> FALSE]
    /\ settings = [system |-> EmptyDict, user |-> EmptyDict]
    /\ sets = EmptyDict
    /\ constructed = FALSE

\* the two processes before either has called file_write
ProcIds == {"A", "B"}

IdleProc ==
    [pc |-> "idle", data |-> <<>>, mode |-> "", new_path |-> NoPath,
     raised |-> NoError]

RaceIdle == procs = [p \in ProcIds |-> IdleProc]

\* no call of extract_file_list or version_check has been made
NoUtilCall == [op |-> "none"]

CallIdle == call = NoUtilCall /\ version_info = <<0, 0>>

\* the directory the process was started in
StartDir == <<"home">>

PushdIdle == cwd = StartDir /\ pushed = <<>>

UtilIdle == RaceIdle /\ CallIdle /\ PushdIdle

FopsInit == FopsStart /\ MergeIdle /\ KvIdle /\ SettingsIdle /\ UtilIdle

\* os.symlink(target, path), as the tests of fops.delete set links up
Symlink(path, target) ==
    /\ fs[path].kind = "absent"
    /\ fs' = [fs EXCEPT ![path] = Link(target)]
    /\ ret' = Call("symlink", path, "", FALSE, FALSE, NoError, EmptyDict)
    /\ fsOps' = {"os.symlink"}
    /\ UNCHANGED <<nwrites, conv_args, nonFopsVars>>

BackupPath(path) ==
    /\ BackupFits(fs, path)
    /\ \E r \in {backup_path(fs, path)} :
           /\ fs' = r.fs
           /\ ret' = Call("backup_path", path, "", FALSE, TRUE, r.raised,
                          EmptyDict)
           /\ fsOps' = r.ops
    /\ UNCHANGED <<nwrites, conv_args, nonFopsVars>>

Delete(path, follow, backup) ==
    /\ backup => BackupFits(fs, path)
    /\ \E r \in {delete(fs, path, follow, backup)} :
           /\ fs' = r.fs
           /\ ret' = Call("delete", path, "", follow, backup, r.raised,
                          EmptyDict)
           /\ fsOps' = r.ops
    /\ UNCHANGED <<nwrites, conv_args, nonFopsVars>>

Mkdir(path, del_exist, backup) ==
    /\ backup => BackupFits(fs, path)
    /\ \E r \in {mkdir(fs, path, del_exist, backup)} :
           /\ fs' = r.fs
           /\ ret' = Call("mkdir", path, "", del_exist, backup, r.raised,
                          EmptyDict)
           /\ fsOps' = r.ops
    /\ UNCHANGED <<nwrites, conv_args, nonFopsVars>>

FileWrite(path, backup) ==
    /\ nwrites < MaxWrites
    /\ backup => BackupFits(fs, path)
    /\ \E r \in {file_write(fs, path, RawText(nwrites + 1), backup)} :
           /\ fs' = r.fs
           /\ ret' = Call("file_write", path, "", FALSE, backup, r.raised,
                          EmptyDict)
           /\ fsOps' = r.ops
    /\ nwrites' = nwrites + 1
    /\ UNCHANGED <<conv_args, nonFopsVars>>

FileReadConvert(path, data_type, default) ==
    /\ \E r \in {file_read_convert(fs, path, data_type, default)} :
           /\ ret' = Call("file_read_convert", path, data_type, default,
                          FALSE, r.raised, r.value)
           /\ fsOps' = r.ops
    /\ UNCHANGED <<fs, nwrites, conv_args, nonFopsVars>>

FileWriteConvertDefaults(data_type) ==
    /\ \E r \in {file_write_convert_defaults(conv_args, data_type)} :
           /\ ret' = Call("file_write_convert_defaults", NoPath, data_type,
                          FALSE, FALSE, r.raised, r.value)
           /\ fsOps' = {}
    /\ UNCHANGED <<fs, nwrites, conv_args, nonFopsVars>>

FileWriteConvert(path, data_type, data, backup, dumper_args) ==
    /\ nwrites < MaxWrites
    /\ backup => BackupFits(fs, path)
    /\ \E r \in {file_write_convert(fs, conv_args, path, data_type, data,
                                   backup, dumper_args)} :
           /\ fs' = r.fs
           /\ conv_args' = r.args
           /\ ret' = Call("file_write_convert", path, data_type, FALSE,
                          backup, r.raised, EmptyDict)
           /\ fsOps' = r.ops
    /\ nwrites' = nwrites + 1
    /\ UNCHANGED nonFopsVars

FopsNext ==
    \/ \E path \in MainPaths : \E target \in LinkTargets(path) :
          Symlink(path, target)
    \/ BackupPath(BackedUp)
    \/ \E path \in MainPaths : \E follow, backup \in BOOLEAN :
          Delete(path, follow, backup)
    \/ \E path \in MainPaths : \E del_exist, backup \in BOOLEAN :
          Mkdir(path, del_exist, backup)
    \/ \E path \in MainPaths : \E backup \in BOOLEAN : FileWrite(path, backup)

\* the convert functions on one path, next to the calls that create and
\* remove what they find there
ConvertNext ==
    \/ Mkdir(BackedUp, FALSE, FALSE)
    \/ Delete(BackedUp, FALSE, FALSE)
    \/ FileWrite(BackedUp, FALSE)
    \/ \E data_type \in DataTypes : \E default \in BOOLEAN :
          FileReadConvert(BackedUp, data_type, default)
    \/ \E data_type \in DataTypes : FileWriteConvertDefaults(data_type)
    \/ \E data_type \in DataTypes : \E data \in Docs :
          \E backup \in BOOLEAN : \E dumper_args \in DumperArgs :
             FileWriteConvert(BackedUp, data_type, data, backup, dumper_args)

vars == <<fopsVars, mergeVars, kvVars, setVars, utilVars>>

SpecFops == FopsInit /\ [][FopsNext]_vars

SpecConvert == FopsInit /\ [][ConvertNext]_vars

(***************************************************************************)
(* merge.py.  Python values: a scalar, a list, or a reference to a dict    *)
(* object of the heap; a dict object maps its keys to values.  A tree is   *)
(* a value written out, with every reference replaced by the dict it names.*)
(***************************************************************************)
Scalar(v) == [t |-> "s", v |-> v]
List(v) == [t |-> "l", v |-> v]
Ref(id) == [t |-> "d", id |-> id]
TreeDict(items) == [t |-> "d", items |-> items]

\* d[key] = value on a dict object
dict_set(d, key, value) ==
    [k \in (DOMAIN d) \cup {key} |-> IF k = key THEN value ELSE d[k]]

\* the order in which a dict's keys are visited
KeyOrder == <<"k", "x">>

IsKeyOf(d, key) == key \in DOMAIN d

RECURSIVE dict_keys_from(_, _)
dict_keys_from(d, i) ==
    IF i > Len(KeyOrder) THEN <<>>
    ELSE IF IsKeyOf(d, KeyOrder[i])
         THEN <<KeyOrder[i]>> \o dict_keys_from(d, i + 1)
         ELSE dict_keys_from(d, i + 1)

\* list(d.keys())
dict_keys(d) == dict_keys_from(d, 1)

\* the value a reference or a plain value stands for
RECURSIVE Tree(_, _)
Tree(h, v) ==
    IF v.t # "d" THEN v
    ELSE TreeDict([k \in DOMAIN h[v.id] |-> Tree(h, h[v.id][k])])

\* the dict objects reachable from a value
RECURSIVE Reachable(_, _)
Reachable(h, v) ==
    IF v.t # "d" THEN {}
    ELSE {v.id} \cup UNION { Reachable(h, h[v.id][k]) : k \in DOMAIN h[v.id] }

\* building a tree in the heap: the caller's dict literals
RECURSIVE Load(_, _)
RECURSIVE LoadItems(_, _, _, _)
LoadItems(h, items, keys, acc) ==
    IF keys = <<>> THEN [heap |-> h, items |-> acc]
    ELSE Only({ LoadItems(c.heap, items, Tail(keys),
                          dict_set(acc, Head(keys), c.value))
                : c \in {Load(h, items[Head(keys)])} })

Load(h, tree) ==
    IF tree.t # "d" THEN [heap |-> h, value |-> tree]
    ELSE Only({ [heap |-> Append(c.heap, c.items),
                 value |-> Ref(Len(c.heap) + 1)]
                : c \in {LoadItems(h, tree.items, dict_keys(tree.items),
                                   EmptyDict)} })

RECURSIVE deepcopy(_, _)
RECURSIVE deepcopy_items(_, _, _, _)
deepcopy_items(h, src, keys, acc) ==
    IF keys = <<>> THEN [heap |-> h, items |-> acc]
    ELSE Only({ deepcopy_items(c.heap, src, Tail(keys),
                               dict_set(acc, Head(keys), c.value))
                : c \in {deepcopy(h, src[Head(keys)])} })

\* new = dict_a: no copy is made
deepcopy_alias(h, v) == [heap |-> h, value |-> v]

\* copy.deepcopy: a dict is copied into a new object, and so is every dict
\* below it; scalars and lists are values here
deepcopy(h, v) ==
    IF v.t # "d" THEN [heap |-> h, value |-> v]
    ELSE Only({ [heap |-> Append(c.heap, c.items),
                 value |-> Ref(Len(c.heap) + 1)]
                : c \in {deepcopy_items(h, h[v.id], dict_keys(h[v.id]),
                                        EmptyDict)} })

TypeError == [exc |-> "TypeError", msg |-> "does not support item assignment"]
AttributeError == [exc |-> "AttributeError", msg |-> "has no attribute 'get'"]

Merged(h, value, raised) == [heap |-> h, value |-> value, raised |-> raised]

\* new[key] = value where both are lists, done as new[key] += value
merge_assign_extend(h, new, key, value) ==
    [h EXCEPT ![new.id] =
        dict_set(@, key,
                 IF IsKeyOf(@, key) /\ @[key].t = "l" /\ value.t = "l"
                 THEN List(@[key].v \o value.v) ELSE value)]

\* new[key] = value on the dict object new refers to
merge_assign(h, new, key, value) ==
    [h EXCEPT ![new.id] = dict_set(@, key, value)]

\* new.get(key, {}): the value under key, else a new empty dict
merge_get(h, new, key) ==
    IF IsKeyOf(h[new.id], key)
    THEN [heap |-> h, value |-> h[new.id][key]]
    ELSE [heap |-> Append(h, EmptyDict), value |-> Ref(Len(h) + 1)]

RECURSIVE merge_dictionaries(_, _, _)
RECURSIVE merge_items(_, _, _, _)
\* the for loop over dict_b.items(), keys being the keys still to visit
merge_items(h, new, dict_b_, keys) ==
    IF keys = <<>> THEN Merged(h, new, NoError)
    ELSE IF h[dict_b_.id][Head(keys)].t = "d"
    THEN \* new[key] = merge_dictionaries(new.get(key, {}), value)
         IF new.t # "d" THEN Merged(h, new, AttributeError)
         ELSE Only({ IF r.raised # NoError THEN r
                     ELSE merge_items(
                            merge_assign(r.heap, new, Head(keys), r.value),
                            new, dict_b_, Tail(keys))
                     : r \in { Only({ merge_dictionaries(
                                         g.heap, g.value,
                                         h[dict_b_.id][Head(keys)])
                                      : g \in {merge_get(h, new, Head(keys))} })
                             } })
    ELSE \* new[key] = value
         IF new.t # "d" THEN Merged(h, new, TypeError)
         ELSE merge_items(
                merge_assign(h, new, Head(keys), h[dict_b_.id][Head(keys)]),
                new, dict_b_, Tail(keys))

merge_dictionaries(h, dict_a_, dict_b_) ==
    Only({ merge_items(c.heap, c.value, dict_b_, dict_keys(c.heap[dict_b_.id]))
           : c \in {deepcopy(h, dict_a_)} })

(***************************************************************************)
(* One merge_dictionaries call on two dict literals, and what the caller   *)
(* then does with the mapping it got back.                                 *)
(***************************************************************************)
MaxDepth == 2       \* nesting depth of the mappings handed to the merge

Keys == {"k", "x"}

Leaves == {Scalar("a"), Scalar("b"), List(<<"a">>)}

\* nested mappings: empty, or one key bound to a leaf or a deeper mapping
RECURSIVE NestedDicts(_)
NestedDicts(depth) ==
    IF depth = 0 THEN {}
    ELSE {TreeDict(EmptyDict)} \cup
         { TreeDict([k \in {"x"} |-> v])
           : v \in Leaves \cup NestedDicts(depth - 1) }

\* the mappings handed to the call
TopDicts ==
    { TreeDict(items)
      : items \in UNION { [K -> Leaves \cup NestedDicts(MaxDepth - 1)]
                          : K \in SUBSET Keys } }

MergeStart ==
    \E ta \in TopDicts, tb \in TopDicts :
        \E la \in {Load(<<>>, ta)} :
            \E lb \in {Load(la.heap, tb)} :
                /\ heap = lb.heap
                /\ dict_a = la.value
                /\ dict_b = lb.value
                /\ given = [a |-> ta, b |-> tb]
                /\ merged = [step |-> "start"]

MergeInit == FopsStart /\ MergeStart /\ KvIdle /\ SettingsIdle /\ UtilIdle

MergeCall ==
    /\ merged.step = "start"
    /\ \E r \in {merge_dictionaries(heap, dict_a, dict_b)} :
           /\ heap' = r.heap
           /\ merged' = [step |-> "called", value |-> r.value,
                         raised |-> r.raised]
    /\ UNCHANGED <<dict_a, dict_b, given, nonMergeVars>>

\* the caller assigns to a key of the returned mapping or of a mapping in it
Poke(id, key) ==
    /\ merged.step = "called"
    /\ merged.raised = NoError
    /\ id \in Reachable(heap, merged.value)
    /\ heap' = [heap EXCEPT ![id] = dict_set(@, key, Scalar("poked"))]
    /\ merged' = [merged EXCEPT !.step = "poked"]
    /\ UNCHANGED <<dict_a, dict_b, given, nonMergeVars>>

MergeNext ==
    \/ MergeCall
    \/ \E id \in 1..Len(heap) : \E key \in Keys : Poke(id, key)

SpecMerge == MergeInit /\ [][MergeNext]_vars

(***************************************************************************)
(* kv.py.  A str is the sequence of its characters; a Python value is a    *)
(* str, an int (held as its decimal digits), a list or a dict.             *)
(***************************************************************************)
Str(s) == [t |-> "str", v |-> s]
IntOf(digits) == [t |-> "int", v |-> digits]

\* strings.makestr on a str or an int: str(data)
makestr(data) == data.v

\* the characters str.strip() removes
Whitespace == {" ", "\n", "\r", "\t"}

RECURSIVE str_lstrip(_)
str_lstrip(s) ==
    IF s # <<>> /\ Head(s) \in Whitespace THEN str_lstrip(Tail(s)) ELSE s

RECURSIVE str_rstrip(_)
str_rstrip(s) ==
    IF s # <<>> /\ s[Len(s)] \in Whitespace
    THEN str_rstrip(SubSeq(s, 1, Len(s) - 1))
    ELSE s

str_strip(s) == str_rstrip(str_lstrip(s))

\* the index of the first sep in s at or after i, 0 when there is none
RECURSIVE str_find(_, _, _)
str_find(s, sep, i) ==
    IF i > Len(s) THEN 0
    ELSE IF s[i] = sep THEN i
    ELSE str_find(s, sep, i + 1)

\* s.split(sep): the pieces between the separators
RECURSIVE str_split(_, _)
str_split(s, sep) ==
    Only({ IF i = 0
           THEN <<s>>
           ELSE <<SubSeq(s, 1, i - 1)>>
                    \o str_split(SubSeq(s, i + 1, Len(s)), sep)
           : i \in {str_find(s, sep, 1)} })

\* s.split(sep) cut down to its first two pieces
str_split_every(s, sep) ==
    Only({ <<pieces[1], pieces[2]>> : pieces \in {str_split(s, sep)} })

\* s.split(sep, 1) on a string that holds sep
str_split_once(s, sep) ==
    Only({ <<SubSeq(s, 1, i - 1), SubSeq(s, i + 1, Len(s))>>
           : i \in {str_find(s, sep, 1)} })

\* s.replace('\r\n', '\n')
RECURSIVE str_replace_crlf(_)
str_replace_crlf(s) ==
    IF Len(s) < 2 THEN s
    ELSE IF s[1] = "\r" /\ s[2] = "\n"
    THEN <<"\n">> \o str_replace_crlf(SubSeq(s, 3, Len(s)))
    ELSE <<s[1]>> \o str_replace_crlf(Tail(s))

COMMENT_CHECKS == {";", "#", "/"}

\* a dict of kv.py: its items in insertion order; ret[key] = value
kv_dict_set(d, key, value) ==
    IF \E i \in DOMAIN d : d[i].key = key
    THEN [i \in DOMAIN d |->
             IF d[i].key = key THEN [key |-> key, value |-> value] ELSE d[i]]
    ELSE Append(d, [key |-> key, value |-> value])

\* == on two dicts
dict_eq(a, b) == {a[i] : i \in DOMAIN a} = {b[i] : i \in DOMAIN b}

KvTypeError == [exc |-> "TypeError", msg |-> "value for key is a dict, list or set"]

equals_str(spaced) == IF spaced THEN <<" ", "=", " ">> ELSE <<"=">>

\* the loop of dumps over data.items(), then ret.strip()
RECURSIVE dumps_items(_, _, _, _)
dumps_items(data, i, equals, text) ==
    IF i > Len(data)
    THEN [value |-> Str(str_strip(text)), raised |-> NoError]
    ELSE IF data[i].value.t \in {"d", "l", "set"}
    THEN [value |-> Str(<<>>), raised |-> KvTypeError]
    ELSE dumps_items(data, i + 1, equals,
                     text \o makestr(data[i].key) \o equals
                          \o makestr(data[i].value) \o <<"\n">>)

dumps(data, spaced) == dumps_items(data, 1, equals_str(spaced), <<>>)

\* one turn of the loop without the test for a comment mark
loads_line_no_comment_test(d, line) ==
    Only({ IF /\ new_line # <<>>
              /\ str_find(new_line, "=", 1) # 0
           THEN Only({ kv_dict_set(d, Str(str_strip(kvp[1])),
                                   Str(str_strip(kvp[2])))
                       : kvp \in {str_split_once(new_line, "=")} })
           ELSE d
           : new_line \in {str_strip(line)} })

\* one turn of the loop that keeps the value as it stands after the '='
loads_line_value_unstripped(d, line) ==
    Only({ IF /\ new_line # <<>>
              /\ new_line[1] \notin COMMENT_CHECKS
              /\ str_find(new_line, "=", 1) # 0
           THEN Only({ kv_dict_set(d, Str(str_strip(kvp[1])), Str(kvp[2]))
                       : kvp \in {str_split_once(new_line, "=")} })
           ELSE d
           : new_line \in {str_strip(line)} })

\* one turn of the loop of loads
loads_line(d, line) ==
    Only({ IF /\ new_line # <<>>
              /\ new_line[1] \notin COMMENT_CHECKS
              /\ str_find(new_line, "=", 1) # 0
           THEN Only({ kv_dict_set(d, Str(str_strip(kvp[1])),
                                   Str(str_strip(kvp[2])))
                       : kvp \in {str_split_once(new_line, "=")} })
           ELSE d
           : new_line \in {str_strip(line)} })

RECURSIVE loads_lines(_, _, _)
loads_lines(new_data, i, d) ==
    IF i > Len(new_data)
    THEN d
    ELSE loads_lines(new_data, i + 1, loads_line(d, new_data[i]))

loads(data) ==
    loads_lines(str_split(makestr(Str(str_replace_crlf(data.v))), "\n"),
                1, <<>>)

(***************************************************************************)
(* One mapping encoded by kv.dumps and the text decoded by kv.loads.       *)
(***************************************************************************)
\* the most items of a mapping, and the most characters of its keys and
\* values together
MaxItems == 2
MaxText == 3

\* an ordinary character, the separator, a blank, a comment mark, a line end
KvChars == {"a", "=", " ", "#", "\n"}

RECURSIVE Strs(_)
Strs(n) ==
    IF n = 0
    THEN {<<>>}
    ELSE {<<>>} \cup {<<c>> \o s : c \in KvChars, s \in Strs(n - 1)}

\* the share of MaxText a value takes: its characters for a str, one for
\* any other value
TextOf(v) == IF v.t = "str" THEN Len(v.v) ELSE 1

\* values that are not of the types dict, list and set: a tuple, a frozenset
\* and an OrderedDict, each with the text str() gives for it
EmptySet == [t |-> "set", v |-> <<>>]
EmptyTuple == [t |-> "tuple", v |-> <<"(", ")">>]
EmptyFrozenset ==
    [t |-> "frozenset",
     v |-> <<"f", "r", "o", "z", "e", "n", "s", "e", "t", "(", ")">>]
EmptyOrderedDict ==
    [t |-> "OrderedDict",
     v |-> <<"O", "r", "d", "e", "r", "e", "d", "D", "i", "c", "t", "(", ")">>]

\* the values that hold other values
Collections ==
    {TreeDict(<<>>), List(<<>>), EmptySet, EmptyTuple, EmptyFrozenset,
     EmptyOrderedDict}

KvValues(n) ==
    {Str(s) : s \in Strs(n)}
        \cup (IF n >= 1 THEN {IntOf(<<"1">>)} \cup Collections ELSE {})

\* the characters the keys and values of a mapping take up
RECURSIVE TextIn(_)
TextIn(data) ==
    IF data = <<>>
    THEN 0
    ELSE Len(Head(data).key.v) + TextOf(Head(data).value) + TextIn(Tail(data))

\* the caller starts from an empty dict
KvStart == kv = [step |-> "given", data |-> <<>>]

KvInit == FopsStart /\ MergeIdle /\ SettingsIdle /\ KvStart /\ UtilIdle

\* data[key] = value for a key the dict does not hold yet
Assign(key, value) ==
    /\ kv.step = "given"
    /\ Len(kv.data) < MaxItems
    /\ \A i \in DOMAIN kv.data : kv.data[i].key # key
    /\ kv' = [kv EXCEPT !.data = kv_dict_set(@, key, value)]
    /\ UNCHANGED <<fopsVars, mergeVars, setVars, utilVars>>

Dumps(spaced) ==
    /\ kv.step = "given"
    /\ \E r \in {dumps(kv.data, spaced)} :
           kv' = [step |-> "dumped", data |-> kv.data, spaced |-> spaced,
                  text |-> r.value, raised |-> r.raised]
    /\ UNCHANGED <<fopsVars, mergeVars, setVars, utilVars>>

Loads ==
    /\ kv.step = "dumped"
    /\ kv.raised = NoError
    /\ kv' = [step |-> "loaded", data |-> kv.data, spaced |-> kv.spaced,
              text |-> kv.text, raised |-> NoError, out |-> loads(kv.text)]
    /\ UNCHANGED <<fopsVars, mergeVars, setVars, utilVars>>

KvNext ==
    \/ \E left \in {MaxText - TextIn(kv.data)} :
          \E k \in Strs(left) : \E v \in KvValues(left - Len(k)) :
             Assign(Str(k), v)
    \/ \E spaced \in BOOLEAN : Dumps(spaced)
    \/ Loads

SpecKV == KvInit /\ [][KvNext]_vars

(***************************************************************************)
(* kv.loads called on a text the caller has typed, with or without         *)
(* keyword arguments.                                                      *)
(***************************************************************************)
\* the most characters of the typed text
MaxChars == 5

\* the characters of the typed text: those of KvChars and a carriage return
TextChars == KvChars \cup {"\r"}

\* the keyword arguments handed to loads (EmptyDict stands for none)
LoadsKwargs == {EmptyDict, [comment |-> "#"]}

TypeErrorKeyword ==
    [exc |-> "TypeError", msg |-> "got an unexpected keyword argument"]

\* loads(data, **kwargs): the function is defined with the one parameter
\* data, so binding any keyword argument fails before the body runs
loads_call(data, kwargs) ==
    IF kwargs # EmptyDict
    THEN [value |-> <<>>, raised |-> TypeErrorKeyword]
    ELSE [value |-> loads(data), raised |-> NoError]

TextStart == kv = [step |-> "typing", text |-> Str(<<>>)]

LoadsInit == FopsStart /\ MergeIdle /\ SettingsIdle /\ TextStart /\ UtilIdle

\* the caller puts one more character at the end of the text
Type(c) ==
    /\ kv.step = "typing"
    /\ Len(kv.text.v) < MaxChars
    /\ kv' = [kv EXCEPT !.text = Str(Append(kv.text.v, c))]
    /\ UNCHANGED <<fopsVars, mergeVars, setVars, utilVars>>

LoadsText(kwargs) ==
    /\ kv.step = "typing"
    /\ \E r \in {loads_call(kv.text, kwargs)} :
           kv' = [step |-> "decoded", text |-> kv.text, kwargs |-> kwargs,
                  out |-> r.value, raised |-> r.raised]
    /\ UNCHANGED <<fopsVars, mergeVars, setVars, utilVars>>

LoadsNext ==
    \/ \E c \in TextChars : Type(c)
    \/ \E kwargs \in LoadsKwargs : LoadsText(kwargs)

SpecLoads == LoadsInit /\ [][LoadsNext]_vars

(***************************************************************************)
(* settings.py.  _sets is the object whose attributes get() reads: a dict  *)
(* from attribute names to values.  st is _settings, df is _defaults,      *)
(* ss is _sets, ld is _loaded.                                             *)
(***************************************************************************)
None == "None"

\* Settings._apply_setting: setattr(self._sets, setting, ...)
_apply_setting(st, df, ss, setting) ==
    IF setting \in DOMAIN st.user
    THEN dict_set(ss, setting, st.user[setting])
    ELSE IF setting \in DOMAIN st.system
    THEN dict_set(ss, setting, st.system[setting])
    ELSE dict_set(ss, setting, df[setting])

\* Settings._apply_settings: for setting in self._defaults
_apply_settings(st, df, ss) ==
    [k \in (DOMAIN ss) \cup (DOMAIN df) |->
        IF k \in DOMAIN df THEN _apply_setting(st, df, ss, k)[k] ELSE ss[k]]

\* Settings._read_settings
_read_settings(f, st, ld, path, settings_type) ==
    IF os_path_isfile(f, path)
    THEN Only({ IF s_data.raised # NoError
                THEN [settings |-> st, loaded |-> ld, raised |-> s_data.raised]
                ELSE [settings |->
                         [st EXCEPT ![settings_type] =
                             dict_update(@, s_data.value)],
                      loaded |-> [ld EXCEPT ![settings_type] = TRUE],
                      raised |-> NoError]
                : s_data \in {file_read_convert(f, path, "yaml", TRUE)} })
    ELSE [settings |-> st, loaded |-> ld, raised |-> NoError]

\* Settings.__init__ after the system file is read
init_user(f, df, user_path, s) ==
    Only({ [defaults |-> df, settings |-> u.settings, loaded |-> u.loaded,
            sets |-> IF u.raised = NoError
                     THEN _apply_settings(u.settings, df, EmptyDict)
                     ELSE EmptyDict,
            raised |-> u.raised]
           : u \in {IF s.raised = NoError /\ user_path # NoPath
                    THEN _read_settings(f, s.settings, s.loaded, user_path,
                                        "user")
                    ELSE s} })

\* Settings.__init__ after conf_back is put into the caller's defaults
init_system(f, df, user_path, sys_path) ==
    init_user(f, df, user_path,
              IF sys_path # NoPath
              THEN _read_settings(f, [system |-> EmptyDict, user |-> EmptyDict],
                                  [system |-> FALSE, user |-> FALSE],
                                  sys_path, "system")
              ELSE [settings |-> [system |-> EmptyDict, user |-> EmptyDict],
                    loaded |-> [system |-> FALSE, user |-> FALSE],
                    raised |-> NoError])

\* Settings.__init__(defaults, user_path, sys_path)
__init__(f, df, user_path, sys_path) ==
    init_system(f,
                IF "conf_back" \notin DOMAIN df
                THEN dict_set(df, "conf_back", "False")
                ELSE df,
                user_path, sys_path)

\* Settings.add
add(st, df, ss, setting, value, sys_setting) ==
    Only({ [settings |-> st2, sets |-> _apply_setting(st2, df, ss, setting)]
           : st2 \in {[st EXCEPT ![IF sys_setting THEN "system" ELSE "user"] =
                         dict_set(@, setting, value)]} })

\* Settings.get: getattr(self._sets, setting, None)
get(ss, setting) == IF setting \in DOMAIN ss THEN ss[setting] ELSE None

(***************************************************************************)
(* One Settings object: built from a defaults dict and two optional YAML   *)
(* files, then changed with add.                                           *)
(***************************************************************************)
SettingKeys == {"test", "sys", "user"}

\* the dicts one layer can hold; every value names the layer it is from
LayerDicts(value) == { [k \in K |-> value] : K \in SUBSET SettingKeys }

\* a YAML file that holds the mapping doc
YamlFile(doc) ==
    File(<<[fmt |-> "yaml", doc |-> doc, args |-> EmptyDict, eol |-> <<>>]>>)

\* a layer's path argument and what is at that path: no path given, nothing
\* there, a directory, or a YAML file
LayerFiles(path, value) ==
    {[path |-> NoPath, entry |-> Absent]}
        \cup { [path |-> path, entry |-> e]
               : e \in {Absent, Dir}
                          \cup { YamlFile(doc) : doc \in LayerDicts(value) } }

SysPath == <<"t">>
UserPath == <<"p">>

SettingsStart ==
    \E df \in LayerDicts("test") :
        \E s \in LayerFiles(SysPath, "sys") :
            \E u \in LayerFiles(UserPath, "user") :
                /\ fs = [q \in Paths |->
                            IF q = SysPath THEN s.entry
                            ELSE IF q = UserPath THEN u.entry
                            ELSE Absent]
                /\ paths = [system |-> s.path, user |-> u.path]
                /\ defaults = df
                /\ loaded = [system |-> FALSE, user |-> FALSE]
                /\ settings = [system |-> EmptyDict, user |-> EmptyDict]
                /\ sets = EmptyDict
                /\ constructed = FALSE
                /\ nwrites = 0
                /\ conv_args = CONV_DATA_TO_STR_ARGS
                /\ ret = NoCall
                /\ fsOps = {}

SettingsInit == SettingsStart /\ MergeIdle /\ KvIdle /\ UtilIdle

\* Settings(defaults, user_path, sys_path)
Construct ==
    /\ ~constructed
    /\ \E r \in {__init__(fs, defaults, paths.user, paths.system)} :
           /\ defaults' = r.defaults
           /\ settings' = r.settings
           /\ loaded' = r.loaded
           /\ sets' = r.sets
           /\ constructed' = (r.raised = NoError)
    /\ UNCHANGED <<paths, fopsVars, mergeVars, kvVars, utilVars>>

Add(setting, value, sys_setting) ==
    /\ constructed
    /\ \E r \in {add(settings, defaults, sets, setting, value, sys_setting)} :
           /\ settings' = r.settings
           /\ sets' = r.sets
    /\ UNCHANGED <<defaults, paths, loaded, constructed, fopsVars, mergeVars,
                   kvVars, utilVars>>

SettingsNext ==
    \/ Construct
    \/ \E setting \in SettingKeys : \E sys_setting \in BOOLEAN :
          Add(setting, "added", sys_setting)

SpecSettings == SettingsInit /\ [][SettingsNext]_vars

(***************************************************************************)
(* A Settings object whose settings are bound to nested mappings.          *)
(***************************************************************************)
\* the nested mapping each layer binds its keys to
LayerMapping(layer) ==
    CASE layer = "defaults" -> [a |-> "1", b |-> "2"]
      [] layer = "system" -> [b |-> "3"]
      [] layer = "user" -> [b |-> "4", c |-> "5"]

NestedStart ==
    \E df \in LayerDicts(LayerMapping("defaults")) :
        \E s \in LayerFiles(SysPath, LayerMapping("system")) :
            \E u \in LayerFiles(UserPath, LayerMapping("user")) :
                /\ fs = [q \in Paths |->
                            IF q = SysPath THEN s.entry
                            ELSE IF q = UserPath THEN u.entry
                            ELSE Absent]
                /\ paths = [system |-> s.path, user |-> u.path]
                /\ defaults = df
                /\ loaded = [system |-> FALSE, user |-> FALSE]
                /\ settings = [system |-> EmptyDict, user |-> EmptyDict]
                /\ sets = EmptyDict
                /\ constructed = FALSE
                /\ nwrites = 0
                /\ conv_args = CONV_DATA_TO_STR_ARGS
                /\ ret = NoCall
                /\ fsOps = {}

NestedInit == NestedStart /\ MergeIdle /\ KvIdle /\ UtilIdle

NestedNext ==
    \/ Construct
    \/ \E setting \in SettingKeys : \E sys_setting \in BOOLEAN :
          Add(setting, [a |-> "added"], sys_setting)

SpecNested == NestedInit /\ [][NestedNext]_vars

(***************************************************************************)
(* fops.delete on chains of symbolic links: p -> t -> u.                   *)
(***************************************************************************)
ChainPaths == MainPaths \cup {ChainTarget}

\* os.symlink calls that build a chain: each name links to the next one
ChainLinks(path) ==
    CASE path = <<"p">> -> {<<"t">>}
      [] path = <<"t">> -> {ChainTarget}
      [] OTHER -> {}

ChainNext ==
    \/ \E path \in ChainPaths : \E target \in ChainLinks(path) :
          Symlink(path, target)
    \/ \E path \in ChainPaths : Mkdir(path, FALSE, FALSE)
    \/ \E path \in ChainPaths : FileWrite(path, FALSE)
    \/ \E path \in ChainPaths : \E follow \in BOOLEAN :
          Delete(path, follow, FALSE)

SpecChain == FopsInit /\ [][ChainNext]_vars

(***************************************************************************)
(* fops.file_write(path, data, backup=True) called by two processes: each  *)
(* os call of file_write and of backup_path is a step of its own, and the  *)
(* steps of the two processes interleave.                                  *)
(***************************************************************************)
nonRaceVars ==
    <<conv_args, ret, fsOps, mergeVars, kvVars, setVars, call, version_info,
      cwd, pushed>>

\* "{0!s}.{1!s}".format(base_back, num_backups) after num_backups += 1
backup_next_name(path, new_path) ==
    IF new_path = Append(path, "bak") THEN Append(new_path, 1)
    ELSE Append(Append(path, "bak"), new_path[Len(new_path)] + 1)

\* a probe that takes the name without testing whether it exists
backup_probe_untested(f, path, proc) == [proc EXCEPT !.pc = "rename"]

\* one os.path.exists(new_path) test of the if / while of backup_path
backup_probe(f, path, proc) ==
    IF os_path_exists(f, proc.new_path)
    THEN [proc EXCEPT !.new_path = backup_next_name(path, proc.new_path)]
    ELSE [proc EXCEPT !.pc = "rename"]

\* the process enters file_write with its data
ProcCall(p) ==
    /\ procs[p].pc = "idle"
    /\ procs' = [procs EXCEPT ![p] = [IdleProc EXCEPT !.pc = "isfile",
                                         !.data = RawText(nwrites + 1)]]
    /\ nwrites' = nwrites + 1
    /\ UNCHANGED <<fs, nonRaceVars>>

\* mode = 'a' if not os.path.isfile(path) else 'w'
ProcIsfile(p) ==
    /\ procs[p].pc = "isfile"
    /\ procs' = [procs EXCEPT ![p].pc = "exists",
                     ![p].mode = IF ~os_path_isfile(fs, BackedUp) THEN "a"
                                 ELSE "w"]
    /\ UNCHANGED <<fs, nwrites, nonRaceVars>>

\* backup_path: if os.path.exists(path)
ProcExists(p) ==
    /\ procs[p].pc = "exists"
    /\ procs' = IF os_path_exists(fs, BackedUp)
                THEN [procs EXCEPT ![p].pc = "probe",
                          ![p].new_path = Append(BackedUp, "bak")]
                ELSE [procs EXCEPT ![p].pc = "open"]
    /\ UNCHANGED <<fs, nwrites, nonRaceVars>>

\* backup_path: the search for a name that does not exist
ProcProbe(p) ==
    /\ procs[p].pc = "probe"
    /\ backup_next_name(BackedUp, procs[p].new_path) \in Paths
    /\ procs' = [procs EXCEPT ![p] = backup_probe(fs, BackedUp, procs[p])]
    /\ UNCHANGED <<fs, nwrites, nonRaceVars>>

\* backup_path: os.rename(path, new_path); an error leaves file_write
ProcRename(p) ==
    /\ procs[p].pc = "rename"
    /\ \E r \in {os_rename(fs, BackedUp, procs[p].new_path)} :
           /\ fs' = r.fs
           /\ procs' = [procs EXCEPT
                           ![p].pc = IF r.raised = NoError THEN "open"
                                     ELSE "raised",
                           ![p].raised = r.raised]
    /\ UNCHANGED <<nwrites, nonRaceVars>>

\* with open(path, mode) as open_file: open_file.write(data)
ProcOpen(p) ==
    /\ procs[p].pc = "open"
    /\ \E r \in {open_write(fs, BackedUp, procs[p].mode, procs[p].data)} :
           /\ fs' = r.fs
           /\ procs' = [procs EXCEPT
                           ![p].pc = IF r.raised = NoError THEN "done"
                                     ELSE "raised",
                           ![p].raised = r.raised]
    /\ UNCHANGED <<nwrites, nonRaceVars>>

\* backed-up writes of a single caller before the two processes start, then
\* one file_write call of each process
RaceNext ==
    \/ (\A p \in ProcIds : procs[p].pc = "idle") /\ FileWrite(BackedUp, TRUE)
    \/ \E p \in ProcIds : ProcCall(p)
    \/ \E p \in ProcIds : ProcIsfile(p)
    \/ \E p \in ProcIds : ProcExists(p)
    \/ \E p \in ProcIds : ProcProbe(p)
    \/ \E p \in ProcIds : ProcRename(p)
    \/ \E p \in ProcIds : ProcOpen(p)

SpecRace == FopsInit /\ [][RaceNext]_vars

(***************************************************************************)
(* fops.extract_file_list                                                  *)
(***************************************************************************)
\* member names of an archive: plain and hidden, at the top and in a folder
MemberNames == {"a", "d/b", ".h", "d/.g"}

os_path_basename(name) ==
    CASE name = "d/b" -> "b"
      [] name = "d/.g" -> ".g"
      [] OTHER -> name

\* str.startswith('.') on the base names above
startswith_dot(base) == base \in {".h", ".g"}

RECURSIVE list_index(_, _, _)
\* list.index(name): the first position from i on that holds name
list_index(file_list, name, i) ==
    IF file_list[i] = name THEN i ELSE list_index(file_list, name, i + 1)

\* list.remove(name): the list without the first occurrence of name
list_remove(file_list, name) ==
    Only({ SubSeq(file_list, 1, k - 1) \o
               SubSeq(file_list, k + 1, Len(file_list))
           : k \in {list_index(file_list, name, 1)} })

RECURSIVE extract_filter(_, _)
\* for name in file_list: the iterator holds a position i in the list it
\* walks, and the list shrinks under it on every remove
extract_filter(file_list, i) ==
    IF i > Len(file_list) THEN file_list
    ELSE IF startswith_dot(os_path_basename(file_list[i]))
         THEN extract_filter(list_remove(file_list, file_list[i]), i + 1)
         ELSE extract_filter(file_list, i + 1)

\* on a path that is a tar archive holding the members
extract_file_list(members, ignore_dots) ==
    IF ignore_dots THEN extract_filter(members, 1) ELSE members

\* an archive and its members in order, before the call
Archive(members) == [op |-> "archive", members |-> members]

ExtractInit ==
    /\ FopsStart /\ MergeIdle /\ KvIdle /\ SettingsIdle /\ RaceIdle
    /\ PushdIdle
    /\ version_info = <<0, 0>>
    /\ call = Archive(<<>>)

\* TarFile.add: one more member in the archive
TarAdd(name) ==
    /\ call.op = "archive"
    /\ Len(call.members) < MaxMembers
    /\ call' = Archive(Append(call.members, name))
    /\ UNCHANGED <<fopsVars, mergeVars, kvVars, setVars, procs, version_info,
                   cwd, pushed>>

ExtractFileList(ignore_dots) ==
    /\ call.op = "archive"
    /\ call' = [op |-> "extract_file_list", members |-> call.members,
                ignore_dots |-> ignore_dots,
                result |-> extract_file_list(call.members, ignore_dots)]
    /\ UNCHANGED <<fopsVars, mergeVars, kvVars, setVars, procs, version_info,
                   cwd, pushed>>

ExtractNext ==
    \/ \E name \in MemberNames : TarAdd(name)
    \/ \E ignore_dots \in BOOLEAN : ExtractFileList(ignore_dots)

SpecExtract == ExtractInit /\ [][ExtractNext]_vars

(***************************************************************************)
(* check.version_check                                                     *)
(***************************************************************************)
\* major and minor version numbers
VersionNumbers == 0..MaxVersion

\* the exception the call ends with, "none" when it returns
version_check(info, major, minor) ==
    IF info[1] < major THEN "VersionError"
    ELSE IF info[1] >= major /\ info[2] < minor THEN "VersionError"
    ELSE "none"

VersionInit ==
    /\ FopsStart /\ MergeIdle /\ KvIdle /\ SettingsIdle /\ RaceIdle
    /\ PushdIdle
    /\ version_info \in VersionNumbers \X VersionNumbers
    /\ call = NoUtilCall

VersionCheck(major, minor) ==
    /\ call.op = "none"
    /\ call' = [op |-> "version_check", major |-> major, minor |-> minor,
                raised |-> version_check(version_info, major, minor)]
    /\ UNCHANGED <<fopsVars, mergeVars, kvVars, setVars, procs, version_info,
                   cwd, pushed>>

VersionNext == \E major, minor \in VersionNumbers : VersionCheck(major, minor)

SpecVersion == VersionInit /\ [][VersionNext]_vars

(***************************************************************************)
(* Settings.save, and a second Settings object built after it from the     *)
(* same defaults dictionary and the same paths.                            *)
(***************************************************************************)
\* do_backup = True if self._settings[s_type].get('conf_back') else False
save_do_backup(st, s_type) ==
    "conf_back" \in DOMAIN st[s_type] /\ st[s_type]["conf_back"] = "True"

\* the dict that is written; with save_all it is self._defaults itself,
\* updated in place with the two layers
save_sets(st, df, s_type, save_all) ==
    IF s_type = "user" /\ save_all
    THEN dict_update(dict_update(df, st.system), st.user)
    ELSE st[s_type]

\* file_write_convert(self._paths[s_type], 'yaml', sets, backup=do_backup);
\* a path of None fails in os.path.isfile
save_write(f, args, path, sts, do_backup) ==
    IF path = NoPath
    THEN [fs |-> f, args |-> args,
          raised |-> [exc |-> "TypeError", msg |-> "path is None"],
          ops |-> {}]
    ELSE file_write_convert(f, args, path, "yaml", sts, do_backup, EmptyDict)

\* Settings.save
save(f, args, st, df, pths, sys_setting, save_all) ==
    Only({ [defaults |-> IF s_type = "user" /\ save_all
                         THEN save_sets(st, df, s_type, save_all) ELSE df,
            written |-> save_write(f, args, pths[s_type],
                                   save_sets(st, df, s_type, save_all),
                                   save_do_backup(st, s_type))]
           : s_type \in {IF sys_setting THEN "system" ELSE "user"} })

Save(sys_setting, save_all) ==
    /\ constructed
    /\ \E r \in {save(fs, conv_args, settings, defaults, paths, sys_setting,
                      save_all)} :
           /\ defaults' = r.defaults
           /\ fs' = r.written.fs
           /\ conv_args' = r.written.args
           /\ fsOps' = r.written.ops
           /\ ret' = Call("save",
                          paths[IF sys_setting THEN "system" ELSE "user"],
                          "yaml", save_all, FALSE, r.written.raised, EmptyDict)
    /\ UNCHANGED <<nwrites, paths, loaded, settings, sets, constructed,
                   mergeVars, kvVars, utilVars>>

\* Settings(defaults, user_path, sys_path) once more: the caller hands in the
\* dictionary and the paths the first object was built from
Reload ==
    /\ constructed
    /\ \E r \in {__init__(fs, defaults, paths.user, paths.system)} :
           /\ defaults' = r.defaults
           /\ settings' = r.settings
           /\ loaded' = r.loaded
           /\ sets' = r.sets
           /\ constructed' = (r.raised = NoError)
    /\ UNCHANGED <<paths, fopsVars, mergeVars, kvVars, utilVars>>

\* the defaults, the files and the keys of the runs with save: one key that
\* the defaults may hold and one that they never hold
SaveDefaults == {EmptyDict, [test |-> "test"]}

SaveFiles(path, doc) ==
    {[path |-> NoPath, entry |-> Absent], [path |-> path, entry |-> Absent],
     [path |-> path, entry |-> YamlFile(doc)]}

SaveKeys == {"test", "user"}

SaveStart ==
    \E df \in SaveDefaults :
        \E s \in SaveFiles(SysPath, [sys |-> "sys"]) :
            \E u \in SaveFiles(UserPath, [user |-> "user"]) :
                /\ fs = [q \in Paths |->
                            IF q = SysPath THEN s.entry
                            ELSE IF q = UserPath THEN u.entry
                            ELSE Absent]
                /\ paths = [system |-> s.path, user |-> u.path]
                /\ defaults = df
                /\ loaded = [system |-> FALSE, user |-> FALSE]
                /\ settings = [system |-> EmptyDict, user |-> EmptyDict]
                /\ sets = EmptyDict
                /\ constructed = FALSE
                /\ nwrites = 0
                /\ conv_args = CONV_DATA_TO_STR_ARGS
                /\ ret = NoCall
                /\ fsOps = {}

SaveInit == SaveStart /\ MergeIdle /\ KvIdle /\ UtilIdle

SaveNext ==
    \/ Construct
    \/ \E setting \in SaveKeys : \E sys_setting \in BOOLEAN :
          Add(setting, "added", sys_setting)
    \/ \E sys_setting, save_all \in BOOLEAN : Save(sys_setting, save_all)
    \/ Reload

SpecSave == SaveInit /\ [][SaveNext]_vars

(***************************************************************************)
(* fops.pushd: a generator wrapped by contextlib.contextmanager.  Each     *)
(* with block entered and not yet left is a suspended generator whose      *)
(* local variable cwd holds the directory to go back to.                   *)
(***************************************************************************)
\* the code before the yield: __enter__
pushd_enter(f, dir, path) ==
    IF ~os_path_isdir(f, path)
    THEN [cwd |-> dir, entered |-> FALSE, raised |-> NotFoundMissing]
    ELSE [cwd |-> path, entered |-> TRUE, raised |-> NoError]

\* the code after the yield, run when the body ends normally: os.chdir(cwd)
pushd_exit(dir, saved) == saved

\* an exception of the body is thrown into the generator at the yield, which
\* stands in no try statement: the generator ends there, nothing more runs
pushd_throw(dir, saved) == dir

PushdEnter(path) ==
    /\ Len(pushed) < MaxDepth
    /\ \E r \in {pushd_enter(fs, cwd, path)} :
           /\ cwd' = r.cwd
           /\ pushed' = IF r.entered THEN Append(pushed, cwd) ELSE pushed
           /\ ret' = Call("pushd", path, "", FALSE, FALSE, r.raised, EmptyDict)
    /\ UNCHANGED <<fs, nwrites, conv_args, fsOps, mergeVars, kvVars, setVars,
                   procs, call, version_info>>

\* the body of the innermost block ends normally
PushdBodyEnds ==
    /\ pushed # <<>>
    /\ cwd' = pushd_exit(cwd, pushed[Len(pushed)])
    /\ pushed' = SubSeq(pushed, 1, Len(pushed) - 1)
    /\ ret' = Call("popd", cwd', "", FALSE, FALSE, NoError, EmptyDict)
    /\ UNCHANGED <<fs, nwrites, conv_args, fsOps, mergeVars, kvVars, setVars,
                   procs, call, version_info>>

\* the body of the innermost block raises, and the caller catches the
\* exception outside the block
PushdBodyRaises ==
    /\ pushed # <<>>
    /\ cwd' = pushd_throw(cwd, pushed[Len(pushed)])
    /\ pushed' = SubSeq(pushed, 1, Len(pushed) - 1)
    /\ ret' = Call("body", cwd', "", FALSE, FALSE,
                   [exc |-> "Exception", msg |-> "raised in the body"],
                   EmptyDict)
    /\ UNCHANGED <<fs, nwrites, conv_args, fsOps, mergeVars, kvVars, setVars,
                   procs, call, version_info>>

PushdNext ==
    \/ \E path \in MainPaths : Mkdir(path, FALSE, FALSE)
    \/ \E path \in MainPaths : PushdEnter(path)
    \/ PushdBodyEnds
    \/ PushdBodyRaises

SpecPushd == FopsInit /\ [][PushdNext]_vars

(***************************************************************************)
(* Claims about the backup chain.                                          *)
(***************************************************************************)
\* the names of the chain in order: path.bak, path.bak.1, path.bak.2, ...
ChainName(path, n) ==
    IF n = 0 THEN Append(path, "bak") ELSE Append(Append(path, "bak"), n)

\* the first name of the chain with no directory entry
FirstUnused(f, path) ==
    ChainName(path,
        CHOOSE n \in 0..MaxBackups :
            /\ f[ChainName(path, n)].kind = "absent"
            /\ \A m \in 0..(n - 1) : f[ChainName(path, m)].kind # "absent")

\* C1: a backup_path call on an existing path moves it to the first name of
\* the chain path.bak, path.bak.1, ... that is not in use, and every backup
\* that was there before the call is still there afterwards, unchanged.
C1_BackupsNeverOverwritten ==
    [][(BackupPath(BackedUp) /\ os_path_exists(fs, BackedUp)) =>
         /\ \A q \in ChainOf(BackedUp) :
               fs[q].kind # "absent" => fs'[q] = fs[q]
         /\ fs'[FirstUnused(fs, BackedUp)] = fs[BackedUp]
         /\ fs'[BackedUp] = Absent]_vars

(***************************************************************************)
(* Claims about the convert functions.                                     *)
(***************************************************************************)
ConvertOps ==
    {"file_read_convert", "file_write_convert", "file_write_convert_defaults"}

Supported(data_type) == str_lower(data_type) \in CONV_FORMATS

\* C8: a convert function called with a format tag outside the registry
\* raises ValueError and has invoked no filesystem primitive at all (no
\* existence test, read, backup, rename or write).
C8_UnsupportedTagFailsBeforeIO ==
    (ret.op \in ConvertOps /\ ~Supported(ret.data_type)) =>
        (ret.raised = ValueError /\ fsOps = {})

\* file_read_convert was refused for its tag on a path that does not exist
C8_Witness ==
    /\ ret.op = "file_read_convert"
    /\ ret.data_type = "unknown_type"
    /\ ~os_path_exists(fs, ret.path)
    /\ ret.raised = ValueError

\* C9: file_read_convert with a registered tag on a missing path returns an
\* empty mapping when default is true and raises FileNotFoundError when it
\* is false; it opens nothing either way.
C9_MissingPathDefaultOrNotFound ==
    (/\ ret.op = "file_read_convert"
     /\ Supported(ret.data_type)
     /\ ~os_path_exists(fs, ret.path)) =>
        /\ ret.flag => (ret.raised = NoError /\ ret.value = EmptyDict)
        /\ ~ret.flag => ret.raised = NotFoundMissing
        /\ fsOps = {"os.path.exists"}

\* the default was asked for on a missing path and the empty mapping came back
C9_Witness ==
    /\ ret.op = "file_read_convert"
    /\ Supported(ret.data_type)
    /\ ret.flag
    /\ ~os_path_exists(fs, ret.path)
    /\ ret.raised = NoError
    /\ ret.value = EmptyDict

\* C10 as stated: on a path that exists and is not a regular file,
\* file_read_convert raises an exception whose class differs from the class
\* raised for a missing path, so that an except clause tells the two apart.
C10_WrongKindDistinctFromNotFound ==
    (/\ ret.op = "file_read_convert"
     /\ Supported(ret.data_type)
     /\ os_path_exists(fs, ret.path)
     /\ ~os_path_isfile(fs, ret.path)) =>
        (ret.raised.exc # "none" /\ ret.raised.exc # NotFoundMissing.exc)

\* C10 amended: on a path that exists and is not a regular file,
\* file_read_convert raises FileNotFoundError for either value of default,
\* the class it also raises for a missing path, with the message "Provided
\* path exists, but is not a file", and does not open the path.
C10_WrongKindRaisesFileNotFound ==
    (/\ ret.op = "file_read_convert"
     /\ Supported(ret.data_type)
     /\ os_path_exists(fs, ret.path)
     /\ ~os_path_isfile(fs, ret.path)) =>
        /\ ret.raised = NotFoundNotFile
        /\ ret.raised.exc = NotFoundMissing.exc
        /\ ret.raised.msg # NotFoundMissing.msg
        /\ "open" \notin fsOps

\* file_read_convert met a directory while default was true
C10_Witness ==
    /\ ret.op = "file_read_convert"
    /\ ret.flag
    /\ fs[ret.path].kind = "dir"
    /\ ret.raised = NotFoundNotFile

(***************************************************************************)
(* Claims about merge_dictionaries.                                        *)
(***************************************************************************)
Called == merged.step \in {"called", "poked"}

ReturnedMapping == Called /\ merged.raised = NoError

\* C4: merge_dictionaries leaves dict_a and dict_b, with all their nested
\* mappings, as they were given, whether it returns or raises; what it
\* returns is a mapping made of new dict objects only, so that assignments
\* the caller then makes into it do not reach dict_a or dict_b either.
C4_MergeLeavesArgumentsAlone ==
    Called =>
        /\ Tree(heap, dict_a) = given.a
        /\ Tree(heap, dict_b) = given.b
        /\ merged.raised = NoError =>
             /\ merged.value.t = "d"
             /\ Reachable(heap, merged.value) \cap
                  (Reachable(heap, dict_a) \cup Reachable(heap, dict_b)) = {}

\* the call returned after merging into a nested mapping of dict_a, and the
\* caller wrote into the result
C4_Witness ==
    /\ merged.step = "poked"
    /\ \E k \in DOMAIN given.a.items :
          /\ given.a.items[k].t = "d"
          /\ IsKeyOf(given.b.items, k)
          /\ given.b.items[k].t = "d"
          /\ given.b.items[k].items # EmptyDict
    /\ Tree(heap, dict_a) = given.a

\* keys the overlay binds to a mapping while the base binds them to a list
\* or a scalar
Mismatched ==
    { k \in DOMAIN given.b.items :
        /\ given.b.items[k].t = "d"
        /\ IsKeyOf(given.a.items, k)
        /\ given.a.items[k].t # "d" }

\* C5: when the overlay binds a key to a mapping and the base binds it to a
\* list or a scalar, merge_dictionaries returns, and the result binds the
\* key to the overlay's mapping.
C5_MismatchReplacesWholesale ==
    (merged.step = "called" /\ Mismatched # {}) =>
        /\ merged.raised = NoError
        /\ \A k \in Mismatched :
             Tree(heap, merged.value).items[k] = given.b.items[k]

\* every list or scalar of the overlay tree b is found at the same place of
\* the result tree res
RECURSIVE OverlayLeavesIn(_, _)
OverlayLeavesIn(res, b) ==
    \A k \in DOMAIN b.items :
        /\ res.t = "d"
        /\ IsKeyOf(res.items, k)
        /\ IF b.items[k].t = "d"
           THEN OverlayLeavesIn(res.items[k], b.items[k])
           ELSE res.items[k] = b.items[k]

C7_RoundTrip ==
    kv.step = "loaded" => dict_eq(kv.out, kv.data)

Chars(s) == {s[i] : i \in DOMAIN s}

Trimmed(s) == s = <<>> \/ (s[1] \notin Whitespace /\ s[Len(s)] \notin Whitespace)

\* a mapping of strings that the text format can carry: no key or value
\* starts or ends with whitespace or holds a line end, no key holds '=' or
\* starts with a comment mark
Plain(data) ==
    \A i \in DOMAIN data :
        /\ data[i].key.t = "str" /\ data[i].value.t = "str"
        /\ Trimmed(data[i].key.v) /\ Trimmed(data[i].value.v)
        /\ "\n" \notin Chars(data[i].key.v) \cup Chars(data[i].value.v)
        /\ "=" \notin Chars(data[i].key.v)
        /\ data[i].key.v = <<>> \/ data[i].key.v[1] \notin COMMENT_CHECKS

\* C7: kv.loads(kv.dumps(M)) == M for every flat mapping M whose keys and
\* values are strings without surrounding whitespace and without line ends,
\* whose keys hold no '=' and do not start with ';', '#' or '/'.
C7_RoundTripOfPlainStrings ==
    (kv.step = "loaded" /\ Plain(kv.data)) => dict_eq(kv.out, kv.data)

\* a spaced two-line text, one value holding '=', decoded to the mapping
C7_Witness ==
    /\ kv.step = "loaded"
    /\ Plain(kv.data)
    /\ Len(kv.data) = 2
    /\ kv.spaced
    /\ \E i \in DOMAIN kv.data : "=" \in Chars(kv.data[i].value.v)
    /\ dict_eq(kv.out, kv.data)

(***************************************************************************)
(* Claims about Settings.                                                  *)
(***************************************************************************)
\* the value of the highest layer that defines setting
Highest(setting) ==
    IF setting \in DOMAIN settings.user THEN settings.user[setting]
    ELSE IF setting \in DOMAIN settings.system THEN settings.system[setting]
    ELSE IF setting \in DOMAIN defaults THEN defaults[setting]
    ELSE None

\* C2: right after construction and after any sequence of add calls, get(k)
\* returns for every key k the value of the highest layer that defines k
\* (user over system over defaults).
C2_GetReturnsHighestLayer ==
    constructed =>
        \A k \in SettingKeys \cup {"conf_back"} : get(sets, k) = Highest(k)

\* the mapping a layer's file holds, empty when there is no such file
FileDoc(path) ==
    IF path # NoPath /\ os_path_isfile(fs, path)
    THEN file_read(fs, path)[1].doc
    ELSE EmptyDict

\* nothing has been added since the object was built
AsBuilt ==
    /\ constructed
    /\ settings = [system |-> FileDoc(paths.system),
                   user |-> FileDoc(paths.user)]

\* C3: the view built from defaults D, a system file S and a user file U has
\* the union of the keys of D, S and U as its keys, and with no settings
\* file it equals the defaults.
C3_ViewKeysAreUnionOfLayers ==
    AsBuilt =>
        /\ DOMAIN sets = (DOMAIN defaults) \cup (DOMAIN FileDoc(paths.system))
                             \cup (DOMAIN FileDoc(paths.user))
        /\ (FileDoc(paths.system) = EmptyDict /\ FileDoc(paths.user) = EmptyDict)
               => sets = defaults

(***************************************************************************)
(* Claims about the codec registry.                                        *)
(***************************************************************************)
\* the four format tags, lower-cased
FourTags == {"json", "xml", "yaml", "kv"}

\* C11: file_read_convert, file_write_convert and file_write_convert_defaults
\* accept each of the tags JSON, XML, YAML and KV and reject every other tag
\* with ValueError.
C11_FourTagsAccepted ==
    ret.op \in ConvertOps =>
        (ret.raised = ValueError <=> str_lower(ret.data_type) \notin FourTags)

\* C12: whatever file_write_convert calls were made before, with whatever
\* dumper_args, file_write_convert_defaults(tag) returns the default options
\* of the tag as they were when the module was imported, and the registry
\* holds those defaults for the next call.
C12_DefaultsStayFixed ==
    /\ conv_args = CONV_DATA_TO_STR_ARGS
    /\ (ret.op = "file_write_convert_defaults" /\ ret.raised = NoError) =>
           ret.value = CONV_DATA_TO_STR_ARGS[str_lower(ret.data_type)]

\* the text the last write put into the file at path
LastWritten(f, path) ==
    f[os_path_realpath(f, path)].data[Len(f[os_path_realpath(f, path)].data)]

\* C13: the text file_write_convert writes ends with exactly one newline
\* and holds no CR LF pair, for every format.
C13_OneTrailingNewline ==
    (ret.op = "file_write_convert" /\ ret.raised = NoError) =>
        LastWritten(fs, ret.path).eol = <<"\n">>

(***************************************************************************)
(* Claims about kv.loads.                                                  *)
(***************************************************************************)
\* the physical lines of the typed text
Lines(text) == str_split(str_replace_crlf(text.v), "\n")

\* the line up to its first marker
CutAt(line, marker) ==
    IF marker \in Chars(line)
    THEN SubSeq(line, 1,
                (CHOOSE i \in DOMAIN line :
                    line[i] = marker /\ \A j \in 1..(i - 1) : line[j] # marker)
                    - 1)
    ELSE line

\* C14: kv.loads takes an inline-comment marker as the option comment='#':
\* the call returns, and its result is what the lines give once everything
\* from the marker onward is taken off each of them.
C14_InlineCommentOption ==
    (kv.step = "decoded" /\ kv.kwargs # EmptyDict) =>
        /\ kv.raised = NoError
        /\ kv.out = loads_lines([n \in DOMAIN Lines(kv.text) |->
                                    CutAt(Lines(kv.text)[n], kv.kwargs.comment)],
                                1, <<>>)

\* the positions of a line that hold something other than whitespace
NonWs(line) == {i \in DOMAIN line : line[i] \notin Whitespace}

Blank(line) == NonWs(line) = {}

\* the first character of a line that is not whitespace
FirstNonWs(line) ==
    line[CHOOSE i \in NonWs(line) : \A j \in NonWs(line) : i <= j]

\* a line that gives no entry: blank, a full-line comment, or without '='
Skipped(line) ==
    \/ Blank(line)
    \/ FirstNonWs(line) \in COMMENT_CHECKS
    \/ "=" \notin Chars(line)

\* a piece of a line without the whitespace around it
Trim(s) ==
    IF Blank(s)
    THEN <<>>
    ELSE SubSeq(s, CHOOSE i \in NonWs(s) : \A j \in NonWs(s) : i <= j,
                   CHOOSE i \in NonWs(s) : \A j \in NonWs(s) : j <= i)

\* the position of the first '=' of a line that holds one
EqAt(line) ==
    CHOOSE i \in DOMAIN line :
        line[i] = "=" /\ \A j \in 1..(i - 1) : line[j] # "="

KeyOf(line) == Str(Trim(SubSeq(line, 1, EqAt(line) - 1)))

ValueOf(line) == Str(Trim(SubSeq(line, EqAt(line) + 1, Len(line))))

\* the lines of the text that give an entry, by their number
EntryLines(text) ==
    {n \in DOMAIN Lines(text) : ~Skipped(Lines(text)[n])}

Decoded == kv.step = "decoded" /\ kv.kwargs = EmptyDict

\* C15: kv.loads raises nothing and gives no entry for a line that is
\* blank, whose first non-whitespace character is ';', '#' or '/', or that
\* holds no '='; every other line gives one entry, so the keys of the result
\* are exactly the keys of the other lines.
C15_SkippedLinesGiveNoEntry ==
    Decoded =>
        /\ kv.raised = NoError
        /\ {kv.out[i].key : i \in DOMAIN kv.out}
               = {KeyOf(Lines(kv.text)[n]) : n \in EntryLines(kv.text)}
        /\ Len(kv.out)
               = Cardinality({KeyOf(Lines(kv.text)[n])
                              : n \in EntryLines(kv.text)})

\* a text of a comment line that holds '=' and of a line that gives an entry
C15_Witness ==
    /\ Decoded
    /\ Len(kv.out) = 1
    /\ \E n \in DOMAIN Lines(kv.text) :
           /\ ~Blank(Lines(kv.text)[n])
           /\ FirstNonWs(Lines(kv.text)[n]) \in COMMENT_CHECKS
           /\ "=" \in Chars(Lines(kv.text)[n])

\* C16: every line that gives an entry is split at its first '=' only: the
\* key is the text before it and the value all the text after it, each
\* without the whitespace around it; of two lines with one key the later
\* one gives the value.
C16_SplitAtFirstEquals ==
    Decoded =>
        \A n \in EntryLines(kv.text) :
            \E i \in DOMAIN kv.out :
                /\ kv.out[i].key = KeyOf(Lines(kv.text)[n])
                /\ \E m \in EntryLines(kv.text) :
                       /\ KeyOf(Lines(kv.text)[m]) = KeyOf(Lines(kv.text)[n])
                       /\ \A o \in EntryLines(kv.text) :
                              KeyOf(Lines(kv.text)[o]) = KeyOf(Lines(kv.text)[n])
                                  => o <= m
                       /\ kv.out[i].value = ValueOf(Lines(kv.text)[m])

\* a line with a blank on either side of its first '=' and a second '=' in
\* its value
C16_Witness ==
    /\ Decoded
    /\ \E n \in EntryLines(kv.text) :
           /\ EqAt(Lines(kv.text)[n]) > 1
           /\ EqAt(Lines(kv.text)[n]) < Len(Lines(kv.text)[n])
           /\ Lines(kv.text)[n][EqAt(Lines(kv.text)[n]) - 1] = " "
           /\ Lines(kv.text)[n][EqAt(Lines(kv.text)[n]) + 1] = " "
           /\ "=" \in Chars(ValueOf(Lines(kv.text)[n]).v)
           /\ \E i \in DOMAIN kv.out :
                  /\ kv.out[i].key = KeyOf(Lines(kv.text)[n])
                  /\ kv.out[i].value = ValueOf(Lines(kv.text)[n])
                  /\ kv.out[i].key.v # <<>>

(***************************************************************************)
(* Claims about kv.dumps.                                                  *)
(***************************************************************************)
\* the kinds of value that are a mapping, a sequence or a set
CollectionKinds == {"d", "OrderedDict", "l", "tuple", "set", "frozenset"}

\* C17: kv.dumps raises TypeError and returns no text whenever a value of
\* the mapping is a mapping, a sequence or a set of any kind (dict,
\* OrderedDict, list, tuple, set, frozenset), and returns the text when every
\* value is a scalar.
C17_CollectionsRaiseTypeError ==
    kv.step = "dumped" =>
        IF \E i \in DOMAIN kv.data : kv.data[i].value.t \in CollectionKinds
        THEN kv.raised = KvTypeError /\ kv.text = Str(<<>>)
        ELSE kv.raised = NoError

(***************************************************************************)
(* Claims about the layers of Settings.                                    *)
(***************************************************************************)
\* what a layer binds setting to, the empty mapping when it does not
LayerValue(layer, setting) ==
    IF setting \in DOMAIN layer THEN layer[setting] ELSE EmptyDict

\* C18: the layers are combined with the deep merge: a key the defaults bind
\* to a nested mapping is bound in the view to that mapping with the nested
\* keys of the system file, then of the user file, put over it, so a nested
\* key that only a lower layer defines stays in the view.
C18_LayersAreDeepMerged ==
    AsBuilt =>
        \A k \in (DOMAIN defaults) \ {"conf_back"} :
            get(sets, k) =
                dict_update(dict_update(defaults[k],
                                        LayerValue(FileDoc(paths.system), k)),
                            LayerValue(FileDoc(paths.user), k))

\* C19: once the constructor has returned, no operation on the Settings
\* object changes what get(k) returns, for any key k.
C19_ViewNeverChanges ==
    [][constructed =>
          \A k \in SettingKeys \cup {"conf_back"} :
              get(sets', k) = get(sets, k)]_vars

(***************************************************************************)
(* Claims about delete.                                                    *)
(***************************************************************************)
\* the name that may be a symbolic link, and what it points at
LinkName == <<"p">>

\* C20: delete(path, follow, backup) on a symbolic link to an existing
\* target, for each of the four pairs of follow and backup: the link is gone
\* after the call, no backup is made (nothing but the link and its target
\* changes), and the target is removed when follow is set and backup is not,
\* and is otherwise left as it was.
C20_DeleteOfLink ==
    [][\A follow, backup \in BOOLEAN :
          (/\ Delete(LinkName, follow, backup)
           /\ os_path_islink(fs, LinkName)
           /\ os_path_exists(fs, LinkName)) =>
              /\ ret'.raised = NoError
              /\ fs'[LinkName] = Absent
              /\ \A q \in Paths \ {LinkName, fs[LinkName].target} :
                    fs'[q] = fs[q]
              /\ fs'[fs[LinkName].target] =
                    IF follow /\ ~backup THEN Absent
                    ELSE fs[fs[LinkName].target]]_vars

\* a link to a directory was deleted with follow set and backup not set:
\* the link was unlinked and the directory removed
C20_Witness ==
    /\ ret.op = "delete"
    /\ ret.path = LinkName
    /\ ret.flag /\ ~ret.backup
    /\ ret.raised = NoError
    /\ {"os.unlink", "shutil.rmtree"} \subseteq fsOps
    /\ \A q \in MainPaths : fs[q] = Absent

(***************************************************************************)
(* Claims about fops.delete.                                               *)
(***************************************************************************)
\* a chain of links L1 -> L2 -> T whose final target exists
IsChain(f) ==
    /\ f[<<"p">>] = Link(<<"t">>)
    /\ f[<<"t">>] = Link(ChainTarget)
    /\ f[ChainTarget].kind \in {"file", "dir"}

\* C21: delete(L1, follow=True, backup=False) on a chain of symbolic links
\* L1 -> L2 -> T leaves none of them behind: after the call L1, the
\* intermediate link L2 and the final target T no longer exist.
C21_WholeChainDeleted ==
    [][(Delete(<<"p">>, TRUE, FALSE) /\ IsChain(fs)) =>
          \A q \in ChainPaths : fs'[q] = Absent]_vars

\* C22: delete(path, backup=True) on an existing file or directory that is
\* not a symbolic link only renames it to the first unused name of its
\* backup chain: afterwards path does not exist, that name holds what path
\* held and nothing else changed; with backup=False the entry is removed
\* and nothing else changes, so no backup is made.
C22_DeleteBacksUpOrRemoves ==
    [][\A path \in MainPaths : \A follow, backup \in BOOLEAN :
          (Delete(path, follow, backup) /\ fs[path].kind \in {"file", "dir"}) =>
              /\ ret'.raised = NoError
              /\ fs'[path] = Absent
              /\ IF backup
                 THEN /\ fs'[FirstUnused(fs, path)] = fs[path]
                      /\ \A q \in Paths \ {path, FirstUnused(fs, path)} :
                            fs'[q] = fs[q]
                 ELSE \A q \in Paths \ {path} : fs'[q] = fs[q]]_vars

\* C23: delete on a path with no directory entry returns normally and
\* changes nothing; whatever the path, delete raises exactly when its try
\* body failed with an error other than ENOENT, and then raises that error.
C23_DeleteRaisesAllButENOENT ==
    [][\A path \in MainPaths : \A follow, backup \in BOOLEAN :
          Delete(path, follow, backup) =>
              /\ fs[path].kind = "absent" =>
                    (ret'.raised = NoError /\ fs' = fs)
              /\ \A d \in {delete_body(fs, path, follow, backup)} :
                    ret'.raised = IF d.raised = OSError("ENOENT") THEN NoError
                                  ELSE d.raised]_vars

\* a delete call raised the ENOTDIR its backup rename failed with
C23_Witness ==
    /\ ret.op = "delete"
    /\ ret.backup
    /\ ret.raised = OSError("ENOTDIR")
    /\ "os.rename" \in fsOps
    /\ fs[ret.path].kind = "dir"

(***************************************************************************)
(* Claims about fops.file_write with backup=True.                          *)
(***************************************************************************)
\* no name is a symbolic link: the path and its chain hold only what
\* file_write calls on the path put there
NoLinks(f) == \A q \in Paths : f[q].kind # "link"

\* C24: a file_write(path, d, backup=True) call of a single caller leaves
\* path a file whose content is exactly d, moves what path held before to the
\* first unused name of the chain path.bak, path.bak.1, ... and changes no
\* other name, so the earlier contents sit in the chain in write order.
C24_BackedUpWrite ==
    [][(FileWrite(BackedUp, TRUE) /\ NoLinks(fs)) =>
          /\ ret'.raised = NoError
          /\ fs'[BackedUp] = File(<<RawText(nwrites')>>)
          /\ fs[BackedUp].kind # "absent" =>
                fs'[FirstUnused(fs, BackedUp)] = fs[BackedUp]
          /\ \A q \in Paths \ {BackedUp} :
                (fs[BackedUp].kind = "absent" \/ q # FirstUnused(fs, BackedUp))
                    => fs'[q] = fs[q]]_vars

\* the second write on a path was a backed-up one: the path holds the second
\* payload alone, path.bak the first, and there is nothing else on disk
C24_Witness ==
    /\ ret.op = "file_write" /\ ret.backup /\ ret.path = BackedUp
    /\ ret.raised = NoError
    /\ fs[BackedUp] = File(<<RawText(2)>>)
    /\ fs[ChainName(BackedUp, 0)] = File(<<RawText(1)>>)
    /\ \A q \in Paths \ {BackedUp, ChainName(BackedUp, 0)} : fs[q] = Absent

(***************************************************************************)
(* Claims about backed-up writes of two processes.                         *)
(***************************************************************************)
\* the payload d is in some file
OnDisk(f, d) ==
    \E q \in Paths :
        /\ f[q].kind = "file"
        /\ \E i \in DOMAIN f[q].data : f[q].data[i] = d

\* process p is past a rename that succeeded
Renamed(p) == procs[p].new_path # NoPath /\ procs[p].pc \in {"open", "done"}

\* C25: the search of backup_path and its rename are separate steps with no
\* lock between them: in every interleaving of two backed-up writes on one
\* path, a rename replaces a backup that is already there only when the
\* other process had selected the same name and renamed first, and what the
\* name held is then in no file.
C25_RenameReplacesOnlyInARace ==
    [][\A p \in ProcIds :
          (/\ ProcRename(p)
           /\ procs'[p].pc = "open"
           /\ fs[procs[p].new_path].kind # "absent") =>
              /\ \E q \in ProcIds \ {p} :
                    Renamed(q) /\ procs[q].new_path = procs[p].new_path
              /\ \A i \in DOMAIN fs[procs[p].new_path].data :
                    ~OnDisk(fs', fs[procs[p].new_path].data[i])]_vars

\* both processes selected the same backup name and both renamed onto it:
\* the content the path held before the two writes is in no file
C25_Witness ==
    /\ \A p \in ProcIds : Renamed(p) /\ procs[p].pc = "done"
    /\ procs["A"].new_path = procs["B"].new_path
    /\ nwrites > Cardinality(ProcIds)
    /\ ~OnDisk(fs, RawText(nwrites - Cardinality(ProcIds)))

(***************************************************************************)
(* Claims about fops.extract_file_list.                                    *)
(***************************************************************************)
NotHidden(name) == ~startswith_dot(os_path_basename(name))

\* C26: extract_file_list(path, ignore_dots=True) returns the member names
\* whose base name does not start with a dot, in archive order: no hidden
\* name is left in the result and no other name is dropped.
C26_HiddenNamesFiltered ==
    (call.op = "extract_file_list" /\ call.ignore_dots) =>
        call.result = SelectSeq(call.members, NotHidden)

(***************************************************************************)
(* Claims about check.version_check.                                       *)
(***************************************************************************)
\* version a is older than version b, compared as major-then-minor pairs
Older(a, b) == a[1] < b[1] \/ (a[1] = b[1] /\ a[2] < b[2])

\* C27: version_check(major, minor) raises VersionError exactly when the
\* running version is older than (major, minor) as a major-then-minor pair,
\* and returns normally for the required version and every newer one.
C27_RaisesExactlyWhenOlder ==
    call.op = "version_check" =>
        (call.raised = "VersionError" <=>
            Older(version_info, <<call.major, call.minor>>))

(***************************************************************************)
(* Claims about Settings.save.                                             *)
(***************************************************************************)
\* the user file is a YAML document that binds k to v
UserFileHas(k, v) ==
    /\ paths.user # NoPath
    /\ fs[paths.user].kind = "file"
    /\ Len(fs[paths.user].data) = 1
    /\ fs[paths.user].data[1].fmt = "yaml"
    /\ k \in DOMAIN fs[paths.user].data[1].doc
    /\ fs[paths.user].data[1].doc[k] = v

\* C28: after add(k, v) and save() on a Settings object with a user path, a
\* new Settings object built from the same defaults and paths returns v for
\* get(k), the value get(k) returned before the reload, for every key k.
C28_SavedSettingsSurviveReload ==
    [][\A k \in SaveKeys :
          (/\ Reload
           /\ ret.op = "save" /\ ret.raised = NoError /\ ret.path = paths.user
           /\ k \in DOMAIN settings.user /\ settings.user[k] = "added"
           /\ get(sets, k) = "added"
           /\ UserFileHas(k, "added")) =>
              get(sets', k) = "added"]_vars

\* C29: no operation of a Settings object, its construction included,
\* changes the defaults dictionary the caller supplied: every step leaves
\* its keys and values as they were.
C29_DefaultsUnmodified == [][defaults' = defaults]_vars

(***************************************************************************)
(* Claims about fops.pushd.                                                *)
(***************************************************************************)
\* C30: when a with pushd(path) block is left, by its body ending normally
\* or by its body raising, the current working directory is the one that
\* was in effect when the block was entered.
C30_CwdRestoredOnLeave ==
    [][(PushdBodyEnds \/ PushdBodyRaises) => cwd' = pushed[Len(pushed)]]_vars

====
